---- MODULE Spec2Model ----
(***************************************************************************)
(* Model of intelmq/bots/outputs/elasticsearch/output.py: the              *)
(* ElasticsearchOutputBot (init, get_index, process) and replace_keys.     *)
(*                                                                         *)
(* Python values are tagged records [k, v]:                                *)
(*   k = "none" (None), "num", "str", "map" (dict), "list".                *)
(* A dict is the sequence of its <<key, value>> items in insertion order,  *)
(* with pairwise distinct keys, as Python keeps it.  Strings are TLA+      *)
(* strings, taken apart with Len/SubSeq and joined with \o.                *)
(***************************************************************************)
EXTENDS Integers, Sequences, FiniteSets, TLC

\* ---------------------------------------------------------------- bounds
MaxEvents == 2      \* events one sink instance receives in a run
MaxFields == 2      \* top-level fields of a received event

\* ---------------------------------------------------------------- values
None == [k |-> "none", v |-> 0]
Num(n) == [k |-> "num", v |-> n]
Str(s) == [k |-> "str", v |-> s]
Map(items) == [k |-> "map", v |-> items]
List(elems) == [k |-> "list", v |-> elems]

\* s[i:j+1] and s[i:i+1] of a Python string (1-based here), empty out of range
Slice(s, i, j) == IF i >= 1 /\ i <= j /\ j <= Len(s) THEN SubSeq(s, i, j) ELSE ""

Char(s, i) == Slice(s, i, i)

\* ----------------------------------------------------------- dict access
DictKeys(d) == {d[i][1] : i \in 1..Len(d)}

DictHas(d, key) == key \in DictKeys(d)

DictPos(d, key) == CHOOSE i \in 1..Len(d) : d[i][1] = key

\* dict.get(key, None)
DictGet(d, key) == IF DictHas(d, key) THEN d[DictPos(d, key)][2] ELSE None

\* d[key] = val : overwrite in place, or append a new item
DictSet(d, key, val) ==
    IF DictHas(d, key)
    THEN [d EXCEPT ![DictPos(d, key)] = <<key, val>>]
    ELSE Append(d, <<key, val>>)

\* d.pop(key)
DictPop(d, key) ==
    LET p == DictPos(d, key)
    IN  SubSeq(d, 1, p - 1) \o SubSeq(d, p + 1, Len(d))

\* ------------------------------------------------------------ str.replace
RECURSIVE StrReplace(_, _, _)
StrReplace(s, old, new) ==
    IF Len(s) < Len(old) \/ Len(s) = 0 THEN s
    ELSE IF SubSeq(s, 1, Len(old)) = old
         THEN new \o StrReplace(SubSeq(s, Len(old) + 1, Len(s)), old, new)
         ELSE Char(s, 1) \o StrReplace(SubSeq(s, 2, Len(s)), old, new)

\* ----------------------------------------------------------- replace_keys
RECURSIVE replace_keys(_, _, _)
RECURSIVE ReplaceItems(_, _, _, _, _)

\* the for loop of replace_keys over obj.items(), from item i on
ReplaceItems(items, i, replacement_obj, key_char, replacement) ==
    IF i > Len(items) THEN replacement_obj
    ELSE LET replacement_key == StrReplace(items[i][1], key_char, replacement)
         IN  ReplaceItems(items, i + 1,
                          DictSet(replacement_obj, replacement_key,
                                  replace_keys(items[i][2], key_char, replacement)),
                          key_char, replacement)

replace_keys(obj, key_char, replacement) ==
    IF obj.k = "map"
    THEN Map(ReplaceItems(obj.v, 1, <<>>, key_char, replacement))
    ELSE obj

\* --------------------------------------------------- datetime.strptime
Digits == <<"0", "1", "2", "3", "4", "5", "6", "7", "8", "9">>

IsDigit(c) == \E i \in 1..10 : Digits[i] = c

DigitVal(c) == (CHOOSE i \in 1..10 : Digits[i] = c) - 1

\* length of the run of digits of s that starts at position i, at most max
DigitRun(s, i, max) ==
    LET Fits(n) == \A j \in i..(i + n - 1) : IsDigit(Char(s, j))
    IN  CHOOSE n \in 0..max : Fits(n) /\ \A m \in (n + 1)..max : ~Fits(m)

RECURSIVE ToInt(_)
ToInt(s) ==
    IF Len(s) = 0 THEN 0
    ELSE 10 * ToInt(Slice(s, 1, Len(s) - 1)) + DigitVal(Char(s, Len(s)))

IsLeap(y) == (y % 4 = 0 /\ y % 100 # 0) \/ y % 400 = 0

DaysInMonth(y, m) ==
    IF m = 2 THEN (IF IsLeap(y) THEN 29 ELSE 28)
    ELSE IF m \in {4, 6, 9, 11} THEN 30 ELSE 31

NoDate == [ok |-> FALSE, y |-> 0, m |-> 0, d |-> 0]

\* datetime.strptime(t, '%Y-%m-%dT%H:%M:%S+00:00').date(); ok = FALSE stands
\* for the TypeError (t not a string) or ValueError (no match) it raises.
\* The directives match digit runs (%Y four digits, the others one or two),
\* the literals match ignoring case, and nothing may follow the offset.
\* (%d written as a blank and a digit, which strptime also takes, is left out.)
Strptime(t) ==
    IF t.k # "str" THEN NoDate
    ELSE
    LET s  == t.v
        nY == DigitRun(s, 1, 4)
        pm == nY + 2
        nm == DigitRun(s, pm, 2)
        pd == pm + nm + 1
        nd == DigitRun(s, pd, 2)
        pH == pd + nd + 1
        nH == DigitRun(s, pH, 2)
        pM == pH + nH + 1
        nM == DigitRun(s, pM, 2)
        pS == pM + nM + 1
        nS == DigitRun(s, pS, 2)
        pZ == pS + nS
        Y  == ToInt(Slice(s, 1, nY))
        m  == ToInt(Slice(s, pm, pm + nm - 1))
        d  == ToInt(Slice(s, pd, pd + nd - 1))
        H  == ToInt(Slice(s, pH, pH + nH - 1))
        M  == ToInt(Slice(s, pM, pM + nM - 1))
        S  == ToInt(Slice(s, pS, pS + nS - 1))
        shape == /\ nY = 4 /\ nm >= 1 /\ nd >= 1 /\ nH >= 1 /\ nM >= 1 /\ nS >= 1
                 /\ Char(s, pm - 1) = "-"
                 /\ Char(s, pd - 1) = "-"
                 /\ Char(s, pH - 1) \in {"T", "t"}
                 /\ Char(s, pM - 1) = ":"
                 /\ Char(s, pS - 1) = ":"
                 /\ Slice(s, pZ, Len(s)) = "+00:00"
    IN  IF /\ shape
           /\ Y >= 1 /\ m \in 1..12 /\ d \in 1..31
           /\ H \in 0..23 /\ M \in 0..59 /\ S \in 0..59
           /\ d <= DaysInMonth(Y, m)
        THEN [ok |-> TRUE, y |-> Y, m |-> m, d |-> d]
        ELSE NoDate

Pad2(n) == Digits[(n \div 10) + 1] \o Digits[(n % 10) + 1]

\* date.isoformat()
IsoFormat(dt) == Pad2(dt.y \div 100) \o Pad2(dt.y % 100) \o "-" \o Pad2(dt.m) \o "-" \o Pad2(dt.d)

\* ------------------------------------------------------------ json.loads
True == [k |-> "bool", v |-> 1]
False == [k |-> "bool", v |-> 0]

ParseFail == [ok |-> FALSE, val |-> None, next |-> 0]

Parsed(val, next) == [ok |-> TRUE, val |-> val, next |-> next]

\* first position at or after i that holds no blank
SkipWs(s, i) ==
    CHOOSE j \in i..(Len(s) + 1) :
        /\ \A n \in i..(j - 1) : Char(s, n) = " "
        /\ Char(s, j) # " "

\* a string literal whose opening quote is at i (escapes are not decoded:
\* a backslash ends the parse)
ParseString(s, i) ==
    LET Closes(j) == Char(s, j) = "\"" /\ \A n \in (i + 1)..(j - 1) : Char(s, n) # "\""
    IN  IF /\ Char(s, i) = "\""
           /\ \E j \in (i + 1)..Len(s) : Closes(j)
        THEN LET j == CHOOSE j \in (i + 1)..Len(s) : Closes(j)
                 body == Slice(s, i + 1, j - 1)
             IN  IF \E n \in 1..Len(body) : Char(body, n) = "\\"
                 THEN ParseFail
                 ELSE Parsed(Str(body), j + 1)
        ELSE ParseFail

\* a non-negative integer literal at i: 0, or a digit run without leading 0
ParseNumber(s, i) ==
    LET n == DigitRun(s, i, Len(s))
    IN  IF n = 0 THEN ParseFail
        ELSE IF Char(s, i) = "0" THEN Parsed(Num(0), i + 1)
        ELSE Parsed(Num(ToInt(Slice(s, i, i + n - 1))), i + n)

RECURSIVE ParseValue(_, _)
RECURSIVE ParseMembers(_, _, _)
RECURSIVE ParseElements(_, _, _)

\* the "key": value pairs of an object from i on; pairs holds those read so
\* far, a repeated key keeping its last value
ParseMembers(s, i, pairs) ==
    LET key == ParseString(s, SkipWs(s, i))
        colon == SkipWs(s, key.next)
        val == ParseValue(s, SkipWs(s, colon + 1))
        after == SkipWs(s, val.next)
    IN  IF ~key.ok \/ Char(s, colon) # ":" THEN ParseFail
        ELSE IF ~val.ok THEN ParseFail
        ELSE IF Char(s, after) = ","
             THEN ParseMembers(s, after + 1, DictSet(pairs, key.val.v, val.val))
        ELSE IF Char(s, after) = "}"
             THEN Parsed(Map(DictSet(pairs, key.val.v, val.val)), after + 1)
        ELSE ParseFail

\* the elements of an array from i on
ParseElements(s, i, elems) ==
    LET val == ParseValue(s, SkipWs(s, i))
        after == SkipWs(s, val.next)
    IN  IF ~val.ok THEN ParseFail
        ELSE IF Char(s, after) = ","
             THEN ParseElements(s, after + 1, Append(elems, val.val))
        ELSE IF Char(s, after) = "]"
             THEN Parsed(List(Append(elems, val.val)), after + 1)
        ELSE ParseFail

ParseValue(s, i) ==
    LET c == Char(s, i)
    IN  IF c = "{"
        THEN (IF Char(s, SkipWs(s, i + 1)) = "}"
              THEN Parsed(Map(<<>>), SkipWs(s, i + 1) + 1)
              ELSE ParseMembers(s, i + 1, <<>>))
        ELSE IF c = "["
        THEN (IF Char(s, SkipWs(s, i + 1)) = "]"
              THEN Parsed(List(<<>>), SkipWs(s, i + 1) + 1)
              ELSE ParseElements(s, i + 1, <<>>))
        ELSE IF c = "\"" THEN ParseString(s, i)
        ELSE IF IsDigit(c) THEN ParseNumber(s, i)
        ELSE IF Slice(s, i, i + 3) = "null" THEN Parsed(None, i + 4)
        ELSE IF Slice(s, i, i + 3) = "true" THEN Parsed(True, i + 4)
        ELSE IF Slice(s, i, i + 4) = "false" THEN Parsed(False, i + 5)
        ELSE ParseFail

\* json.loads(s) for the JSON built from objects, arrays, plain strings,
\* non-negative integers, true, false, null and blanks; ok = FALSE stands for
\* the ValueError (JSONDecodeError) it raises
loads(s) ==
    LET r == ParseValue(s, SkipWs(s, 1))
    IN  IF r.ok /\ SkipWs(s, r.next) = Len(s) + 1 THEN r ELSE ParseFail

\* ------------------------------------------------------------------ state
VARIABLES
    Elasticsearch,     \* TRUE iff the elasticsearch module could be imported
    parameters,        \* the bot's configuration (self.parameters)
    templates,         \* names of the templates on the Elasticsearch host
    indices,           \* names of the indices on the Elasticsearch host
    status,            \* "new", "running" (init returned) or "failed" (init raised)
    error,             \* the exception init() or the last process() raised, "" if none
    elastic_index,     \* self.elastic_index
    rotate_index,      \* self.rotate_index
    replacement_char,  \* self.replacement_char
    flatten_fields,    \* self.flatten_fields
    pc,                \* position of process(): "idle", "flatten", "indexing", "ack"
    received,          \* number of events handed out by receive_message()
    event,             \* event.to_dict(hierarchical=False) of the current message
    event_dict,        \* the local event_dict of process()
    fi,                \* position of the flatten loop in flatten_fields
    es_call,           \* arguments of the es.index call in flight or just returned
    calls,             \* events (by number) for which es.index was called
    indexed,           \* events for which es.index returned
    raised,            \* events whose process() raised
    acked,             \* events for which acknowledge_message() was called
    gi_call            \* arguments and result of a direct get_index call

vars == <<Elasticsearch, parameters, templates, indices, status, error,
          elastic_index, rotate_index, replacement_char, flatten_fields,
          pc, received, event, event_dict, fi, es_call,
          calls, indexed, raised, acked, gi_call>>

botVars == <<Elasticsearch, parameters, templates, indices, status, error,
             elastic_index, rotate_index, replacement_char, flatten_fields>>

logVars == <<calls, indexed, raised, acked>>

\* ----------------------------------------------------------------- inputs
Ts2023 == "2023-05-01T00:00:00+00:00"
TsLoose == "2022-12-31t9:5:7+00:00"
TsObs == "2023-06-02T23:59:59+00:00"
TsBad == "2023-02-30T00:00:00+00:00"

\* the fields an event may carry: at most one item of each set, in this order
Components == <<
    { <<"extra", Map(<< <<"a", Num(1)>>, <<"b", Num(2)>> >>)>>,
      <<"extra", Map(<< <<"x.y", Num(1)>> >>)>>,
      <<"extra", Map(<< <<"a", Map(<< <<"b.c", Num(1)>>, <<"b_c", Num(2)>> >>)>> >>)>>,
      <<"extra", Str("{\"a\": 1}")>>,
      <<"extra", Str("{\"a\":[{\"b.c\":1}]}")>>,
      <<"extra", Str("not json")>>,
      <<"extra", Str("[1]")>>,
      <<"extra", Str("5")>> },
    { <<"extra_a", Str("old")>>,
      <<"extra_a", Map(<< <<"b", Num(7)>> >>)>> },
    { <<"time.source", Str(Ts2023)>>,
      <<"time_source", Str(Ts2023)>>,
      <<"time.source", Str(TsLoose)>>,
      <<"time_source", Str(TsBad)>> },
    { <<"time.observation", Str(TsObs)>>,
      <<"time_observation", Str(TsObs)>>,
      <<"time_observation", Str("2023-06-02")>> },
    { <<"a.b", Num(1)>>,
      <<"m", List(<<Map(<< <<"p.q", Num(1)>> >>)>>)>> },
    { <<"a_b", Num(2)>> } >>

RECURSIVE Selections(_, _)
Selections(c, room) ==
    IF c > Len(Components) THEN {<<>>}
    ELSE Selections(c + 1, room)
         \cup (IF room = 0 THEN {}
               ELSE {<<item>> \o rest : item \in Components[c],
                                        rest \in Selections(c + 1, room - 1)})

Events == Selections(1, MaxFields)

\* datetime.today().date() on the days the sink runs
Days == { [ok |-> TRUE, y |-> 2024, m |-> 1, d |-> 15],
          [ok |-> TRUE, y |-> 2024, m |-> 1, d |-> 16] }

Defaults == {"unknown-date", "2024-01-15", ""}

Parameters ==
    [ elastic_index : {"intelmq", "abuse"},
      rotate_index : BOOLEAN,
      replacement_char : {"_", "-"},
      flatten_fields : {List(<<"extra">>), Str("extra,extra_a")} ]

NoCall == [index |-> "", body |-> <<>>]

NoResult == [event_dict |-> <<>>, default |-> "", result |-> "", done |-> FALSE]

\* ---------------------------------------------------------------- str.split
RECURSIVE Split(_, _)
Split(s, sep) ==
    IF \E i \in 1..Len(s) : Char(s, i) = sep
    THEN LET i == CHOOSE i \in 1..Len(s) :
                      Char(s, i) = sep /\ \A j \in 1..(i - 1) : Char(s, j) # sep
         IN  <<Slice(s, 1, i - 1)>> \o Split(Slice(s, i + 1, Len(s)), sep)
    ELSE <<s>>

\* --------------------------------------------------------------- get_index
\* get_index leaving the loop at the first candidate that does not parse
get_index_break(event_dict_, default) ==
    IF rotate_index
    THEN LET source == Strptime(DictGet(event_dict_, "time_source"))
         IN  elastic_index \o "-" \o (IF source.ok THEN IsoFormat(source) ELSE default)
    ELSE elastic_index

\* get_index that does not look at self.rotate_index
get_index_always_rotate(event_dict_, default) ==
    LET source == Strptime(DictGet(event_dict_, "time_source"))
        observation == Strptime(DictGet(event_dict_, "time_observation"))
        event_date == IF source.ok THEN IsoFormat(source)
                      ELSE IF observation.ok THEN IsoFormat(observation)
                      ELSE ""
    IN  elastic_index \o "-" \o (IF event_date # "" THEN event_date ELSE default)

get_index(event_dict_, default) ==
    IF rotate_index
    THEN LET source == Strptime(DictGet(event_dict_, "time_source"))
             observation == Strptime(DictGet(event_dict_, "time_observation"))
             event_date == IF source.ok THEN IsoFormat(source)
                           ELSE IF observation.ok THEN IsoFormat(observation)
                           ELSE ""
         IN  elastic_index \o "-" \o (IF event_date # "" THEN event_date ELSE default)
    ELSE elastic_index

\* ---------------------------------------------------------- the flatten loop
\* for key, value in val.items(): event_dict[field + '_' + key] = value
RECURSIVE Promote(_, _, _, _)
Promote(d, field, items, i) ==
    IF i > Len(items) THEN d
    ELSE Promote(DictSet(d, field \o "_" \o items[i][1], items[i][2]), field, items, i + 1)

\* val after "if it's a string try to parse it as JSON"
Decoded(val) ==
    IF val.k = "str" /\ loads(val.v).ok THEN loads(val.v).val ELSE val

\* the iteration without event_dict.pop(field)
FlattenFieldNoPop(d, field) ==
    IF ~DictHas(d, field) THEN d
    ELSE LET val == Decoded(DictGet(d, field))
         IN  IF val.k = "map" THEN Promote(d, field, val.v, 1) ELSE d

\* the iteration storing the decoded value back into event_dict
FlattenFieldStoreDecoded(d, field) ==
    IF ~DictHas(d, field) THEN d
    ELSE LET val == Decoded(DictGet(d, field))
         IN  IF val.k = "map"
             THEN DictPop(Promote(d, field, val.v, 1), field)
             ELSE DictSet(d, field, val)

\* one iteration of the loop over self.flatten_fields
FlattenField(d, field) ==
    IF ~DictHas(d, field) THEN d
    ELSE LET val == Decoded(DictGet(d, field))
         IN  IF val.k = "map"
             THEN DictPop(Promote(d, field, val.v, 1), field)
             ELSE d

\* ------------------------------------------------------------------- Init
Init ==
    /\ Elasticsearch \in BOOLEAN
    /\ parameters \in Parameters
    /\ templates \in {{}, {"intelmq"}}
    /\ indices \in {{}, {"intelmq"}}
    /\ status = "new"
    /\ error = ""
    /\ elastic_index = ""
    /\ rotate_index = FALSE
    /\ replacement_char = ""
    /\ flatten_fields = <<>>
    /\ pc = "idle"
    /\ received = 0
    /\ event = <<>>
    /\ event_dict = <<>>
    /\ fi = 0
    /\ es_call = NoCall
    /\ calls = <<>>
    /\ indexed = <<>>
    /\ raised = <<>>
    /\ acked = <<>>
    /\ gi_call = NoResult

\* ------------------------------------------------------------------- init()
SetAttributes ==
    /\ elastic_index' = parameters.elastic_index
    /\ rotate_index' = parameters.rotate_index
    /\ replacement_char' = parameters.replacement_char
    /\ flatten_fields' = IF parameters.flatten_fields.k = "str"
                         THEN Split(parameters.flatten_fields.v, ",")
                         ELSE parameters.flatten_fields.v

InitMissingModule ==
    /\ status = "new"
    /\ ~Elasticsearch
    /\ status' = "failed"
    /\ error' = "ValueError"
    /\ UNCHANGED <<Elasticsearch, parameters, templates, indices, elastic_index,
                   rotate_index, replacement_char, flatten_fields>>

\* init() that only warns about the missing template
InitNoTemplateIgnored ==
    /\ status = "new"
    /\ Elasticsearch
    /\ parameters.rotate_index
    /\ parameters.elastic_index \notin templates
    /\ SetAttributes
    /\ status' = "running"
    /\ UNCHANGED <<Elasticsearch, parameters, templates, indices, error>>

InitNoTemplate ==
    /\ status = "new"
    /\ Elasticsearch
    /\ parameters.rotate_index
    /\ parameters.elastic_index \notin templates
    /\ SetAttributes
    /\ status' = "failed"
    /\ error' = "RuntimeError"
    /\ UNCHANGED <<Elasticsearch, parameters, templates, indices>>

InitRotating ==
    /\ status = "new"
    /\ Elasticsearch
    /\ parameters.rotate_index
    /\ parameters.elastic_index \in templates
    /\ SetAttributes
    /\ status' = "running"
    /\ UNCHANGED <<Elasticsearch, parameters, templates, indices, error>>

InitSingleIndex ==
    /\ status = "new"
    /\ Elasticsearch
    /\ ~parameters.rotate_index
    /\ SetAttributes
    /\ indices' = IF parameters.elastic_index \notin indices
                  THEN indices \cup {parameters.elastic_index}
                  ELSE indices
    /\ status' = "running"
    /\ UNCHANGED <<Elasticsearch, parameters, templates, error>>

init ==
    /\ \/ InitMissingModule
       \/ InitNoTemplate
       \/ InitRotating
       \/ InitSingleIndex
    /\ UNCHANGED <<pc, received, event, event_dict, fi, es_call, logVars, gi_call>>

\* ---------------------------------------------------------------- process()
\* the bot runs process() only once init() has returned
Started == status = "running"

\* event = self.receive_message(); event_dict = event.to_dict(hierarchical=False)
Receive ==
    /\ Started
    /\ pc = "idle"
    /\ received < MaxEvents
    /\ \E e \in Events :
        /\ event' = e
        /\ event_dict' = e
    /\ received' = received + 1
    /\ fi' = 1
    /\ es_call' = NoCall
    /\ error' = ""
    /\ pc' = "flatten"
    /\ UNCHANGED <<Elasticsearch, parameters, templates, indices, status,
                   elastic_index, rotate_index, replacement_char, flatten_fields,
                   logVars, gi_call>>

\* one iteration of: for field in self.flatten_fields
FlattenStep ==
    /\ pc = "flatten"
    /\ fi <= Len(flatten_fields)
    /\ event_dict' = FlattenField(event_dict, flatten_fields[fi])
    /\ fi' = fi + 1
    /\ UNCHANGED <<botVars, pc, received, event, es_call, logVars, gi_call>>

\* replace_keys called with key_char and replacement exchanged
SanitizedSwapped(d) == replace_keys(Map(d), replacement_char, ".").v

\* event_dict = replace_keys(event_dict, replacement=self.replacement_char)
Sanitized(d) == replace_keys(Map(d), ".", replacement_char).v

\* replace_keys, get_index with today's date as default, and the call of es.index
Submit ==
    /\ pc = "flatten"
    /\ fi > Len(flatten_fields)
    /\ event_dict' = Sanitized(event_dict)
    /\ \E today \in Days :
        es_call' = [index |-> get_index(event_dict', IsoFormat(today)),
                    body |-> event_dict']
    /\ calls' = Append(calls, received)
    /\ pc' = "indexing"
    /\ UNCHANGED <<botVars, received, event, fi, indexed, raised, acked, gi_call>>

\* es.index returns
IndexReturns ==
    /\ pc = "indexing"
    /\ indexed' = Append(indexed, received)
    /\ pc' = "ack"
    /\ UNCHANGED <<botVars, received, event, event_dict, fi, es_call,
                   calls, raised, acked, gi_call>>

\* es.index raises and process() catches the exception and goes on
IndexRaisesSwallowed ==
    /\ pc = "indexing"
    /\ raised' = Append(raised, received)
    /\ error' = "TransportError"
    /\ pc' = "ack"
    /\ UNCHANGED <<Elasticsearch, parameters, templates, indices, status,
                   elastic_index, rotate_index, replacement_char, flatten_fields,
                   received, event, event_dict, fi, es_call, calls, indexed, acked,
                   gi_call>>

\* es.index raises: process() does not catch it, the caller sees the exception
IndexRaises ==
    /\ pc = "indexing"
    /\ raised' = Append(raised, received)
    /\ error' = "TransportError"
    /\ pc' = "idle"
    /\ event' = <<>>
    /\ event_dict' = <<>>
    /\ fi' = 0
    /\ es_call' = NoCall
    /\ UNCHANGED <<Elasticsearch, parameters, templates, indices, status,
                   elastic_index, rotate_index, replacement_char, flatten_fields,
                   received, calls, indexed, acked, gi_call>>

\* self.acknowledge_message(), then process() returns
Acknowledge ==
    /\ pc = "ack"
    /\ acked' = Append(acked, received)
    /\ pc' = "idle"
    /\ event' = <<>>
    /\ event_dict' = <<>>
    /\ fi' = 0
    /\ es_call' = NoCall
    /\ UNCHANGED <<botVars, received, calls, indexed, raised, gi_call>>

\* a direct call of get_index on an initialised bot
GetIndexCall ==
    /\ Started
    /\ pc = "idle"
    /\ ~gi_call.done
    /\ \E d \in Events, default \in Defaults :
        gi_call' = [event_dict |-> d, default |-> default,
                    result |-> get_index(d, default), done |-> TRUE]
    /\ UNCHANGED <<botVars, pc, received, event, event_dict, fi, es_call, logVars>>

Next ==
    \/ init
    \/ Receive
    \/ FlattenStep
    \/ Submit
    \/ IndexReturns
    \/ IndexRaises
    \/ Acknowledge

Spec == Init /\ [][Next]_vars

NextIndex ==
    \/ init
    \/ GetIndexCall

SpecIndex == Init /\ [][NextIndex]_vars

\* ================================================================ claims
Elems(seq) == {seq[i] : i \in 1..Len(seq)}

Contains(s, c) == \E i \in 1..Len(s) : Char(s, i) = c

\* some key of val, at any depth and also inside lists, contains the character c
RECURSIVE HasKeyWith(_, _)
HasKeyWith(val, c) ==
    IF val.k = "map"
    THEN \E i \in 1..Len(val.v) : Contains(val.v[i][1], c) \/ HasKeyWith(val.v[i][2], c)
    ELSE IF val.k = "list"
    THEN \E i \in 1..Len(val.v) : HasKeyWith(val.v[i], c)
    ELSE FALSE

Handed == pc \in {"indexing", "ack"}

FlattenDone == pc = "flatten" /\ fi > Len(flatten_fields)

\* the field of the flatten iteration about to run
Field == flatten_fields[fi]

Iterating == pc = "flatten" /\ fi \in 1..Len(flatten_fields)

\* C1: every document handed to the store write has no key containing '.',
\* at any nesting depth, including mappings that are elements of lists.
C1_NoIllegalKey == Handed => ~HasKeyWith(Map(es_call.body), ".")

\* C2: an event is acknowledged only after its own store write returned; an
\* event whose write raised is never acknowledged, its error reaches the
\* caller, and es.index is called at most once per event.
C2_AckOnlyAfterWrite ==
    /\ \A i \in 1..Len(acked) : acked[i] \in Elems(indexed)
    /\ Elems(raised) \cap Elems(acked) = {}
    /\ Elems(raised) \cap Elems(indexed) = {}
    /\ \A i, j \in 1..Len(calls) : calls[i] = calls[j] => i = j
    /\ \A i, j \in 1..Len(acked) : acked[i] = acked[j] => i = j
    /\ (received \in Elems(raised)) => (pc = "idle" /\ error = "TransportError")
    /\ pc = "ack" => received \in Elems(indexed)

C2_Witness ==
    /\ raised = <<1>>
    /\ acked = <<2>>
    /\ indexed = <<2>>
    /\ calls = <<1, 2>>

\* C3 as stated: once the flatten loop is over, every listed field that the
\* event carried with a mapping value (possibly as JSON text) is absent and
\* each of its sub-keys k is found as field_k with the sub-key's value.
C3_AfterFlattenStep ==
    FlattenDone =>
        \A n \in 1..Len(flatten_fields) :
            LET field == flatten_fields[n]
                val == Decoded(DictGet(event, field))
            IN  (DictHas(event, field) /\ val.k = "map") =>
                    /\ ~DictHas(event_dict, field)
                    /\ \A i \in 1..Len(val.v) :
                           /\ DictHas(event_dict, field \o "_" \o val.v[i][1])
                           /\ DictGet(event_dict, field \o "_" \o val.v[i][1]) = val.v[i][2]

\* C3 amended: the loop iteration for a listed field that is present with a
\* mapping value (possibly as JSON text) removes the field and leaves every
\* sub-key k as field_k with the sub-key's value, whatever field_k held before.
C3_FlattenIteration ==
    [][ (Iterating /\ DictHas(event_dict, Field)
           /\ Decoded(DictGet(event_dict, Field)).k = "map")
        => LET val == Decoded(DictGet(event_dict, Field))
           IN  /\ ~DictHas(event_dict', Field)
               /\ \A i \in 1..Len(val.v) :
                      /\ DictHas(event_dict', Field \o "_" \o val.v[i][1])
                      /\ DictGet(event_dict', Field \o "_" \o val.v[i][1]) = val.v[i][2]
               /\ fi' = fi + 1 ]_vars

C3_Witness ==
    /\ pc = "flatten"
    /\ fi = 2
    /\ flatten_fields[1] = "extra"
    /\ DictGet(event, "extra") = Str("{\"a\": 1}")
    /\ DictGet(event, "extra_a") = Str("old")
    /\ event_dict = << <<"extra_a", Num(1)>> >>

\* C4 as stated: once the flatten loop is over, every listed field that the
\* event carried with a value that is no mapping, also after decoding, still
\* holds its original value under its original name.
C4_AfterFlattenStep ==
    FlattenDone =>
        \A n \in 1..Len(flatten_fields) :
            LET field == flatten_fields[n]
            IN  (DictHas(event, field) /\ Decoded(DictGet(event, field)).k # "map") =>
                    /\ DictHas(event_dict, field)
                    /\ DictGet(event_dict, field) = DictGet(event, field)

\* C4 amended: the loop iteration for a listed field that is present with a
\* value that is no mapping, also after decoding, changes nothing in the
\* event, raises nothing and goes on to the next field.
C4_FlattenIterationKeeps ==
    [][ (Iterating /\ DictHas(event_dict, Field)
           /\ Decoded(DictGet(event_dict, Field)).k # "map")
        => /\ event_dict' = event_dict
           /\ pc' = "flatten"
           /\ fi' = fi + 1
           /\ error' = error
           /\ raised' = raised ]_vars

C4_Witness ==
    /\ pc = "indexing"
    /\ flatten_fields = <<"extra">>
    /\ DictGet(event, "extra") = Str("[1]")
    /\ DictGet(es_call.body, "extra") = Str("[1]")
    /\ Len(es_call.body) = Len(event)

\* the calendar date of the timestamps the inputs use, "" if none
CalendarDate(val) ==
    IF val = Str(Ts2023) THEN "2023-05-01"
    ELSE IF val = Str(TsLoose) THEN "2022-12-31"
    ELSE IF val = Str(TsObs) THEN "2023-06-02"
    ELSE ""

\* the date get_index is to choose for the mapping d and the default
ChosenDate(d, default) ==
    IF CalendarDate(DictGet(d, "time_source")) # ""
    THEN CalendarDate(DictGet(d, "time_source"))
    ELSE IF CalendarDate(DictGet(d, "time_observation")) # ""
    THEN CalendarDate(DictGet(d, "time_observation"))
    ELSE default

\* C5: with rotate_index true, get_index returns elastic_index-D, D being the
\* date of time_source if it parses, else that of time_observation if it
\* parses, else the default as given.
C5_RotatingIndex ==
    (gi_call.done /\ rotate_index) =>
        gi_call.result = elastic_index \o "-" \o ChosenDate(gi_call.event_dict, gi_call.default)

C5_Witness ==
    /\ gi_call.done
    /\ rotate_index
    /\ DictGet(gi_call.event_dict, "time_source") = Str(TsBad)
    /\ DictGet(gi_call.event_dict, "time_observation") = Str(TsObs)
    /\ gi_call.result = "intelmq-2023-06-02"

\* the event's own timestamps, under the names to_dict gives them
OwnSource(e) ==
    IF DictHas(e, "time.source") THEN DictGet(e, "time.source") ELSE DictGet(e, "time_source")

OwnObservation(e) ==
    IF DictHas(e, "time.observation") THEN DictGet(e, "time.observation")
    ELSE DictGet(e, "time_observation")

OwnDate(e) ==
    IF CalendarDate(OwnSource(e)) # "" THEN CalendarDate(OwnSource(e))
    ELSE CalendarDate(OwnObservation(e))

\* C6: with rotation, an event that carries a parseable source or observation
\* timestamp goes to the base name suffixed with the event's own date, whatever
\* the replacement character and the day of the run.
C6_IndexFromEventAlone ==
    (Handed /\ rotate_index /\ OwnDate(event) # "") =>
        es_call.index = elastic_index \o "-" \o OwnDate(event)

\* b is a with keys renamed only: as many entries at every level, and every
\* value of a under its renamed key
RECURSIVE RenamedOnly(_, _, _, _)
RenamedOnly(a, b, key_char, replacement) ==
    IF a.k = "map"
    THEN /\ b.k = "map"
         /\ Len(b.v) = Len(a.v)
         /\ \A i \in 1..Len(a.v) :
                LET key == StrReplace(a.v[i][1], key_char, replacement)
                IN  /\ DictHas(b.v, key)
                    /\ RenamedOnly(a.v[i][2], DictGet(b.v, key), key_char, replacement)
    ELSE b = a

\* C7: replace_keys only renames keys: the sanitized document has, at every
\* level, as many entries as the mapping it was made from and every value
\* under its renamed key.
C7_LosesNoValue ==
    [][ (FlattenDone /\ pc' = "indexing")
        => RenamedOnly(Map(event_dict), Map(event_dict'), ".", replacement_char) ]_vars

\* C8: with rotate_index set and no template named elastic_index, init()
\* raises, creates no index, and no event is received, submitted or
\* acknowledged; without rotation the index exists once an event is received.
C8_FailFast ==
    [][ /\ (parameters.rotate_index /\ parameters.elastic_index \notin templates) =>
              /\ status' # "running"
              /\ (status = "new" /\ status' # "new") =>
                     (status' = "failed" /\ error' \in {"RuntimeError", "ValueError"})
              /\ (status = "new" /\ status' # "new" /\ Elasticsearch) => error' = "RuntimeError"
              /\ indices' = indices
              /\ received' = 0
              /\ calls' = <<>>
              /\ indexed' = <<>>
              /\ acked' = <<>>
        /\ (~parameters.rotate_index /\ received' > 0) => parameters.elastic_index \in indices'
      ]_vars

C8_Witness ==
    /\ status = "failed"
    /\ error = "RuntimeError"
    /\ rotate_index
    /\ elastic_index = "abuse"
    /\ templates = {"intelmq"}
    /\ indices = {}

C9Event ==
    << <<"extra", Map(<< <<"x.y", Num(1)>> >>)>>, <<"time_source", Str(Ts2023)>> >>

C9Case ==
    /\ event = C9Event
    /\ flatten_fields = <<"extra">>
    /\ rotate_index
    /\ elastic_index = "intelmq"
    /\ replacement_char = "_"

\* C9 as stated: the example event is written once, to intelmq-2023-05-01,
\* as the document {"extra_x_y": 1}.
C9_DocumentAsStated ==
    (Handed /\ C9Case) =>
        /\ es_call.index = "intelmq-2023-05-01"
        /\ Elems(es_call.body) = { <<"extra_x_y", Num(1)>> }

\* C9 amended: the example event is written once, to intelmq-2023-05-01, as
\* the document {"time_source": "2023-05-01T00:00:00+00:00", "extra_x_y": 1}.
C9_EndToEnd ==
    (Handed /\ C9Case) =>
        /\ es_call.index = "intelmq-2023-05-01"
        /\ Len(es_call.body) = 2
        /\ Elems(es_call.body) = { <<"time_source", Str(Ts2023)>>, <<"extra_x_y", Num(1)>> }
        /\ Cardinality({i \in 1..Len(calls) : calls[i] = received}) = 1

C9_Witness ==
    /\ pc = "ack"
    /\ C9Case
    /\ es_call.index = "intelmq-2023-05-01"
    /\ DictGet(es_call.body, "extra_x_y") = Num(1)

\* C10: with rotate_index false, get_index returns the configured index name
\* for every event and default.
C10_FixedIndex ==
    (gi_call.done /\ ~rotate_index) => gi_call.result = parameters.elastic_index

C10_Witness ==
    /\ gi_call.done
    /\ ~parameters.rotate_index
    /\ DictGet(gi_call.event_dict, "time_source") = Str(Ts2023)
    /\ gi_call.default = "unknown-date"
    /\ gi_call.result = "abuse"
====
